---- MODULE Spec2Model ----
(***************************************************************************)
(* CookieCraft: the consent state machine and the script gate.             *)
(*                                                                         *)
(* The document is a sequence of script elements; every element has an     *)
(* identity `el`, and remembers in `origin` the element it is a copy of    *)
(* (itself when it was written by the page), and tells in `attached`       *)
(* whether it is still in the document.  JavaScript values are             *)
(* written as strings ("true", "false", "undefined"); NULL is the null of   *)
(* an object-valued field and NoCategory the null of a category name.      *)
(* Time is counted in days.                                                *)
(***************************************************************************)
EXTENDS Integers, Sequences, FiniteSets, TLC

\* ---------------------------------------------------------------- bounds
MaxEl == 3         \* script elements ever created in one page load
MaxRevision == 2   \* the policy revision the site serves now
MaxTimers == 1     \* destroy timers of the banner pending at the same time
MaxSessions == 2   \* page loads of one visitor
MaxSubs == 3       \* subscriptions the event emitter holds at the same time
MaxCalls == 5      \* handler calls of one emit that are followed

\* ------------------------------------------------------- program constants
ExpiryMonths == 13

NULL == [null |-> TRUE]
NoCategory == "<null>"
NoAttr == "<no attribute>"
PlainType == "text/plain"
DefaultType == "text/javascript"

\* ------------------------------------------------------------- Date
\* A Date's time value is counted in days from 2024-01-01 (day 0); the time
\* of day is left out.  An ISO string is the tuple <<year, month, day>>,
\* months counted from 1.
Years == 2024..2029

isLeap(y) == (y % 4 = 0 /\ y % 100 # 0) \/ y % 400 = 0

DaysInMonth(y, m) ==
    IF m = 2 THEN (IF isLeap(y) THEN 29 ELSE 28)
    ELSE IF m \in {4, 6, 9, 11} THEN 30 ELSE 31

DaysInYear(y) == IF isLeap(y) THEN 366 ELSE 365

RECURSIVE daysBeforeYear(_)
daysBeforeYear(y) ==
    IF y <= 2024 THEN 0 ELSE daysBeforeYear(y - 1) + DaysInYear(y - 1)

RECURSIVE daysBeforeMonth(_, _)
daysBeforeMonth(y, m) ==
    IF m <= 1 THEN 0 ELSE daysBeforeMonth(y, m - 1) + DaysInMonth(y, m - 1)

\* The first day of every year and, within a year, of every month.
YearStart == [y \in 2024..2030 |-> daysBeforeYear(y)]
MonthStart == [y \in 2024..2030 |-> [m \in 1..12 |-> daysBeforeMonth(y, m)]]

\* MakeDay of ECMAScript: a month beyond December runs into the following
\* years, and a day beyond the end of the month runs into the following
\* months.
MakeDay(y, m, d) ==
    LET year == y + ((m - 1) \div 12)
        month == ((m - 1) % 12) + 1
    IN  YearStart[year] + MonthStart[year][month] + (d - 1)

\* The calendar: the year, month and day of month of every day.
Calendar ==
    [t \in 0..(YearStart[2030] - 1) |->
        LET y == CHOOSE year \in Years :
                     YearStart[year] <= t /\ t < YearStart[year + 1]
            m == CHOOSE month \in 1..12 :
                     /\ MakeDay(y, month, 1) <= t
                     /\ t < MakeDay(y, month, 1) + DaysInMonth(y, month)
        IN  << y, m, t - MakeDay(y, m, 1) + 1 >>]

\* NaN, the time value of an Invalid Date: no time value is less than it and
\* it is less than none.
NaN == 0 - 1
lessThan(a, b) == a # NaN /\ b # NaN /\ a < b

\* Date.prototype.toISOString and new Date(isoString); a string that names no
\* month or no day of a month gives an Invalid Date.
toISOString(t) == Calendar[t]
newDate(isoString) ==
    IF isoString[2] \in 1..12 /\ isoString[3] \in 1..31
    THEN MakeDay(isoString[1], isoString[2], isoString[3])
    ELSE NaN

getFullYear(t) == Calendar[t][1]
getMonth(t) == Calendar[t][2]
getDate(t) == Calendar[t][3]

\* Date.prototype.setMonth(month): the same year, day of month and time of
\* day with the month replaced.
setMonth(t, month) == MakeDay(getFullYear(t), month, getDate(t))

\* expiryDate of createConsentRecord for every day of creation through 2027:
\* const expiryDate = new Date(now);
\* expiryDate.setMonth(expiryDate.getMonth() + 13).
expiryDates ==
    [t \in 0..(YearStart[2028] - 1) |->
        setMonth(t, getMonth(t) + ExpiryMonths)]

\* ------------------------------------------------------------- URLs
\* A URL is a sequence of tokens; a pattern is a URL too, and
\* String.includes is containment of a contiguous run of tokens.
GAUrl == <<"https://www.", "google-analytics.com", "/analytics.js">>
Inline == <<>>

includes(src, pattern) ==
    \E i \in 1..(Len(src) - Len(pattern) + 1) :
        SubSeq(src, i, i + Len(pattern) - 1) = pattern

\* CategoryManager.categories after the constructor, in Map order.
defaultPatterns ==
    << [name |-> "analytics",
        patterns |-> << <<"google-analytics.com">>, <<"googletagmanager.com">>,
                        <<"analytics.", "google.com">>, <<"plausible.io">>,
                        <<"matomo.org">>, <<"hotjar.com">>, <<"mixpanel.com">>,
                        <<"segment.com">>, <<"amplitude.com">> >>],
       [name |-> "marketing",
        patterns |-> << <<"facebook.net">>, <<"facebook.com", "/tr">>,
                        <<"connect.", "facebook.net">>, <<"doubleclick.net">>,
                        <<"ads.", "google.com">>, <<"linkedin.com", "/analytics">>,
                        <<"twitter.com", "/i/adsct">>, <<"pinterest.com", "/ct">>,
                        <<"adroll.com">>, <<"taboola.com">>, <<"outbrain.com">> >>],
       [name |-> "necessary", patterns |-> << >>] >>

\* The first registered category one of whose patterns the URL contains.
RECURSIVE matchPattern(_, _)
matchPattern(src, i) ==
    IF i > Len(defaultPatterns) THEN NoCategory
    ELSE IF \E k \in 1..Len(defaultPatterns[i].patterns) :
                includes(src, defaultPatterns[i].patterns[k])
         THEN defaultPatterns[i].name
         ELSE matchPattern(src, i + 1)

\* getCategoryForScript trying the patterns before the explicit marker.
getCategoryForScriptPatternFirst(script) ==
    IF script.src # Inline /\ matchPattern(script.src, 1) # NoCategory
    THEN matchPattern(script.src, 1)
    ELSE IF script.marker # NoAttr /\ script.marker # ""
         THEN script.marker
         ELSE NoCategory

\* CategoryManager.getCategoryForScript
getCategoryForScript(script) ==
    IF script.marker # NoAttr /\ script.marker # ""
    THEN script.marker
    ELSE IF script.src = Inline THEN NoCategory
         ELSE matchPattern(script.src, 1)

\* CategoryManager.isAllowed: consent[category] === true
isAllowed(category, consent) ==
    category \in DOMAIN consent /\ consent[category] = "true"

\* --------------------------------------------------------- configuration
\* The caller's configuration after validateConfig; the category set is the
\* three required categories, and gtmConsentMode is off unless the caller
\* turns it on.
PolicyCategories == {"necessary", "analytics", "marketing"}

Configs == { [autoShow |-> a, gtmConsentMode |-> FALSE] : a \in BOOLEAN }

\* ------------------------------------------------------------- payloads
AcceptAll == [necessary |-> "true", analytics |-> "true", marketing |-> "true"]
RejectAll == [necessary |-> "true", analytics |-> "false", marketing |-> "false"]
AnalyticsOnly == [necessary |-> "true", analytics |-> "true", marketing |-> "false"]
NoNecessary == [necessary |-> "false", analytics |-> "true", marketing |-> "true"]
UnknownKey == [necessary |-> "true", functional |-> "true"]

\* What the preference centre can submit: necessary is a disabled, checked box.
PreferencePayloads == {AcceptAll, RejectAll, AnalyticsOnly}
\* What a script can pass to the public updateConsent besides: a necessary
\* that is truthy and not true, a property that is undefined, a property
\* every object inherits, a BigInt, no necessary at all.
TruthyNecessary == [necessary |-> "1", analytics |-> "true", marketing |-> "false"]
UndefinedMarketing ==
    [necessary |-> "true", analytics |-> "true", marketing |-> "undefined"]
PrototypeKey == [necessary |-> "true", toString |-> "true"]
BigIntValue == [necessary |-> "true", analytics |-> "bigint"]
AbsentNecessary == [analytics |-> "true"]
CallerPayloads ==
    {AcceptAll, TruthyNecessary, UndefinedMarketing, PrototypeKey, BigIntValue,
     NoNecessary, UnknownKey, AbsentNecessary}

\* What a caller of the public updateConsent can pass.
ApiPayloads == {AcceptAll, RejectAll, AnalyticsOnly, NoNecessary, UnknownKey}

\* ------------------------------------------------ the scripts of a page
\* type "" is a script element without a type attribute.
ScriptKinds ==
    { [marker |-> "analytics", src |-> GAUrl, type |-> ""],
      [marker |-> "marketing", src |-> Inline, type |-> DefaultType],
      [marker |-> "analytics", src |-> Inline, type |-> PlainType] }

\* How a script comes into the document after the page was parsed: appended
\* itself, or inside a container element that is appended.
Insertions ==
    { [kind |-> k, nested |-> FALSE] : k \in ScriptKinds }
    \cup { [kind |-> [marker |-> "marketing", src |-> Inline, type |-> DefaultType],
            nested |-> TRUE] }

VARIABLES
    config,          \* CookieConsent.config: autoShow
    revision,        \* config.revision
    now,             \* the clock
    inited,          \* init() has run in this page load
    doc,             \* the script elements of the page, in document order;
                     \* one the page has removed stays at its place, detached
    nextEl,          \* the next element identity
    observer,        \* ScriptBlocker.observer is connected
    records,         \* mutation records queued for the observer's callback
    blockedScripts,  \* ScriptBlocker.blockedScripts, in insertion order
    currentConsent,  \* ScriptBlocker.currentConsent
    consent,         \* ConsentManager.consent
    storage,         \* localStorage item cookiecraft_consent
    bannerEl,        \* Banner.element is in the document
    bannerTimers,    \* pending 300 ms destroy timers of the banner
    activated,       \* history: releases by the gate, per origin
    emitted,         \* history: the events published by the last step
    last,            \* history: the operation the last step ran
    storageMode,     \* what the browser lets the page do with localStorage
    session,         \* the page loads of the visitor so far
    arg,             \* the categories object of the decision submitted last,
                     \* as the script that passed it holds it
    savedVersions,   \* history: the versions of the last two records saved
    unsaved,         \* history: the decision accepted last, when save caught
                     \* an exception while writing it; NULL otherwise
    events,          \* EventEmitter.events: per event, the handlers the page
                     \* has subscribed, in the order of its Set
    delivery,        \* history: what the last emit did; NULL before any
    dataLayer        \* window.dataLayer: the consent command pushed last; NULL
                     \* while nothing was pushed

\* What only the specification of the visitor's successive page loads changes.
visits == << storageMode, session, arg, savedVersions, unsaved >>

\* What only the specification of the event emitter changes.
bus == << events, delivery >>

\* What the specification of the event emitter leaves alone.
page == << config, revision, now, inited, doc, nextEl, observer, records,
           blockedScripts, currentConsent, consent, storage, bannerEl,
           bannerTimers, activated, emitted, last, dataLayer >>

vars == << config, revision, now, inited, doc, nextEl, observer, records,
           blockedScripts, currentConsent, consent, storage, bannerEl,
           bannerTimers, activated, emitted, last, visits, bus, dataLayer >>

\* ------------------------------------------------------------ the document
inDoc(d, el) == \E i \in 1..Len(d) : d[i].el = el
indexOf(d, el) == CHOOSE i \in 1..Len(d) : d[i].el = el
nodeOf(d, el) == d[indexOf(d, el)]

\* A script element as the page or a third party writes it.
newScript(kind, el) ==
    [el |-> el, origin |-> el, marker |-> kind.marker, src |-> kind.src,
     type |-> kind.type, origType |-> "", attached |-> TRUE]

\* Map.prototype.set: an existing key keeps its place and takes the new value.
mapSet(b, key, el) ==
    IF \E i \in 1..Len(b) : b[i].key = key
    THEN [i \in 1..Len(b) |-> IF b[i].key = key THEN [key |-> key, el |-> el] ELSE b[i]]
    ELSE Append(b, [key |-> key, el |-> el])

mapDelete(b, key) == SelectSeq(b, LAMBDA e : e.key # key)

\* ------------------------------------------------------------ ScriptBlocker
\* ScriptBlocker.generateScriptId: the source URL, or a value no other call
\* returns (Date.now() and Math.random()), for which the element stands.
generateScriptId(script) ==
    IF script.src # Inline THEN [src |-> script.src, uid |-> 0]
    ELSE [src |-> Inline, uid |-> script.el]

\* processScript taken for a toggle: a script that is already text/plain gets
\* its original type back.
processScriptToggle(d, b, cc, el) ==
    LET script == d[CHOOSE i \in 1..Len(d) : d[i].el = el]
        category == getCategoryForScript(script)
        same == [doc |-> d, blocked |-> b]
        at == CHOOSE i \in 1..Len(d) : d[i].el = el
    IN  IF category = NoCategory THEN same
        ELSE IF cc # NULL /\ isAllowed(category, cc) THEN same
        ELSE IF script.type # PlainType
             THEN [doc |-> [d EXCEPT ![at] =
                              [script EXCEPT
                                  !.origType = IF script.type = "" THEN DefaultType
                                               ELSE script.type,
                                  !.type = PlainType]],
                   blocked |-> mapSet(b, generateScriptId(script), el)]
             ELSE [doc |-> [d EXCEPT ![at] =
                              [script EXCEPT
                                  !.type = IF script.origType # "" THEN script.origType
                                           ELSE DefaultType,
                                  !.origType = ""]],
                   blocked |-> b]

\* processScript without the return for a script that has no category.
processScriptAnyCategory(d, b, cc, el) ==
    LET script == nodeOf(d, el)
        category == getCategoryForScript(script)
        same == [doc |-> d, blocked |-> b]
    IN  IF cc # NULL /\ isAllowed(category, cc) THEN same
        ELSE IF script.type # PlainType
             THEN [doc |-> [d EXCEPT ![indexOf(d, el)] =
                              [script EXCEPT
                                  !.origType = IF script.type = "" THEN DefaultType
                                               ELSE script.type,
                                  !.type = PlainType]],
                   blocked |-> mapSet(b, generateScriptId(script), el)]
             ELSE same

\* ScriptBlocker.processScript on the element el of the document d, with the
\* withheld map b and the remembered approval cc.
processScript(d, b, cc, el) ==
    LET script == nodeOf(d, el)
        category == getCategoryForScript(script)
        same == [doc |-> d, blocked |-> b]
    IN  IF category = NoCategory THEN same
        ELSE IF cc # NULL /\ isAllowed(category, cc) THEN same
        ELSE IF script.type # PlainType
             THEN [doc |-> [d EXCEPT ![indexOf(d, el)] =
                              [script EXCEPT
                                  !.origType = IF script.type = "" THEN DefaultType
                                               ELSE script.type,
                                  !.type = PlainType]],
                   blocked |-> mapSet(b, generateScriptId(script), el)]
             ELSE same

\* ScriptBlocker.blockExistingScripts: processScript on every element of the
\* document that matches script[data-cookieconsent], in document order.
RECURSIVE blockFrom(_, _, _, _)
blockFrom(d, b, cc, i) ==
    IF i > Len(d) THEN [doc |-> d, blocked |-> b]
    ELSE IF d[i].marker = NoAttr \/ ~d[i].attached
         THEN blockFrom(d, b, cc, i + 1)
         ELSE LET r == processScript(d, b, cc, d[i].el)
              IN  blockFrom(r.doc, r.blocked, cc, i + 1)

blockExistingScripts(d, b, cc) == blockFrom(d, b, cc, 1)

\* reactivateScript appending the new element to the document instead of
\* inserting it before the withheld one.
reactivateScriptAtEnd(g, el, watching) ==
    LET attached == inDoc(g.doc, el)
        script == nodeOf(g.doc, el)
        copy == [el |-> g.nextEl, origin |-> script.origin,
                 marker |-> script.marker, src |-> script.src,
                 type |-> IF script.origType # "" THEN script.origType
                          ELSE DefaultType,
                 origType |-> "", attached |-> TRUE]
        i == indexOf(g.doc, el)
    IN  IF attached
        THEN [doc |-> SubSeq(g.doc, 1, i - 1)
                        \o SubSeq(g.doc, i + 1, Len(g.doc)) \o <<copy>>,
              nextEl |-> g.nextEl + 1,
              records |-> IF watching
                          THEN Append(g.records, [isScript |-> TRUE, el |-> copy.el])
                          ELSE g.records,
              activated |-> [g.activated EXCEPT ![script.origin] = @ + 1],
              events |-> Append(g.events,
                                [name |-> "script:activated",
                                 category |-> script.marker,
                                 src |-> IF script.src # Inline THEN script.src
                                         ELSE <<"inline">>])]
        ELSE g

\* ScriptBlocker.reactivateScript on the withheld element el.  g is the gate's
\* state while it releases: the document, the next element identity, the
\* queued mutation records, the releases so far and the events published.
\* The new element goes into the document when the withheld one has a parent
\* there; script:activated is published in either case.
reactivateScript(g, el, watching) ==
    LET script == nodeOf(g.doc, el)
        attached == script.attached
        activation == [name |-> "script:activated",
                       category |-> script.marker,
                       src |-> IF script.src # Inline THEN script.src
                               ELSE <<"inline">>]
        copy == [el |-> g.nextEl, origin |-> script.origin,
                 marker |-> script.marker, src |-> script.src,
                 type |-> IF script.origType # "" THEN script.origType
                          ELSE DefaultType,
                 origType |-> "", attached |-> TRUE]
        i == indexOf(g.doc, el)
    IN  IF attached
        THEN [doc |-> SubSeq(g.doc, 1, i - 1) \o <<copy>>
                        \o SubSeq(g.doc, i + 1, Len(g.doc)),
              nextEl |-> g.nextEl + 1,
              records |-> IF watching
                          THEN Append(g.records, [isScript |-> TRUE, el |-> copy.el])
                          ELSE g.records,
              activated |-> [g.activated EXCEPT ![script.origin] = @ + 1],
              events |-> Append(g.events, activation)]
        ELSE [g EXCEPT !.events = Append(g.events, activation)]

\* ScriptBlocker.unblock, the loop over blockedScripts: entries is the map as
\* it was when the loop started, b the map with the released entries deleted.
RECURSIVE unblockFrom(_, _, _, _, _, _)
unblockFrom(g, b, entries, categories, watching, i) ==
    IF i > Len(entries) THEN [gate |-> g, blocked |-> b]
    ELSE LET e == entries[i]
             category == getCategoryForScript(nodeOf(g.doc, e.el))
         IN  IF category # NoCategory /\ isAllowed(category, categories)
             THEN unblockFrom(reactivateScript(g, e.el, watching),
                              mapDelete(b, e.key), entries, categories,
                              watching, i + 1)
             ELSE unblockFrom(g, b, entries, categories, watching, i + 1)

\* unblock without blockedScripts.delete(id).
unblockKeep(g, b, categories, watching) ==
    [gate |-> unblockFrom(g, b, b, categories, watching, 1).gate, blocked |-> b]

unblock(g, b, categories, watching) ==
    unblockFrom(g, b, b, categories, watching, 1)

\* unblock(null): every entry of blockedScripts has a category, so the first
\* one has isAllowed read consent[category] of null, which raises a TypeError
\* out of the forEach, after this.currentConsent has been assigned.
unblockRaises(b, categories) == categories = NULL /\ b # << >>

\* ----------------------------------------------------------- ConsentManager
truthy(v) == v \notin {"false", "undefined"}

field(categories, key) ==
    IF key \in DOMAIN categories THEN categories[key] ELSE "undefined"

\* What the in operator finds in every object: the properties of
\* Object.prototype (two of them).
ObjectPrototype == {"constructor", "toString"}

\* ConsentManager.validateConsent: !categories.necessary, and
\* key in this.config.categories for the own keys of categories.
validateConsent(categories) ==
    /\ truthy(field(categories, "necessary"))
    /\ \A key \in DOMAIN categories :
          key \in PolicyCategories \cup ObjectPrototype

\* ConsentManager.needsConsent on the field ConsentManager.consent
needsConsent(consentField) == consentField = NULL

\* createConsentRecord with the version written into the code.
createConsentRecordVersionOne(categories, rev, t) ==
    LET expiryDate == expiryDates[t]
    IN  [version |-> 1, timestamp |-> toISOString(t),
         categories |-> categories, userAgent |-> "UA",
         expiresAt |-> toISOString(expiryDate)]

\* ConsentManager.createConsentRecord at the instant t under the revision rev
createConsentRecord(categories, rev, t) ==
    LET expiryDate == expiryDates[t]
    IN  [version |-> rev, timestamp |-> toISOString(t),
         categories |-> categories, userAgent |-> "UA",
         expiresAt |-> toISOString(expiryDate)]

\* needsUpdate with the comparison turned round.
needsUpdateInverted(storedConsent, rev) == storedConsent.version > rev

\* needsUpdate taking a record of the current revision for a stale one.
needsUpdateOrEqual(storedConsent, rev) == storedConsent.version <= rev

\* ConsentManager.needsUpdate
needsUpdate(storedConsent, rev) == storedConsent.version < rev

\* ----------------------------------------------------------- StorageManager
\* validateSchema asking for a field the record does not have.
validateSchemaWrongField(data) ==
    /\ data # NULL
    /\ {"revision", "timestamp", "categories", "userAgent", "expiresAt"}
           \subseteq DOMAIN data

\* StorageManager.validateSchema on the parsed item.  A property of the items
\* considered is absent (typeof gives "undefined"), of the type asked for, or
\* null where an object is asked for (typeof null is "object").
validateSchema(data) ==
    /\ data # NULL
    /\ {"version", "timestamp", "categories", "userAgent", "expiresAt"}
           \subseteq DOMAIN data

\* StorageManager.migrate
migrate(oldData) == NULL

\* localStorage.  The item cookiecraft_consent is absent (NULL) or a text: a
\* JSON text is written [json |-> the value it denotes], Garbage is a text that
\* is not JSON.  The browser grants the page the storage ("ok"), refuses the
\* writes (quota exceeded, "full") or refuses every access ("denied").
Garbage == [garbage |-> TRUE]
StorageModes == {"ok", "full", "denied"}
Throws == [throws |-> TRUE]

getItem(item, mode) == IF mode = "denied" THEN Throws ELSE item
setItem(item, text, mode) == IF mode # "ok" THEN Throws ELSE text

\* JSON.stringify of a consent record: it throws on a BigInt and leaves out
\* the properties whose value is undefined.
JSONstringify(value) ==
    LET categories == value.categories
        written == { k \in DOMAIN categories : categories[k] # "undefined" }
    IN  IF \E k \in DOMAIN categories : categories[k] = "bigint" THEN Throws
        ELSE IF \A k \in DOMAIN categories : categories[k] # "undefined"
             THEN [json |-> value]
             ELSE [json |-> [value EXCEPT
                                !.categories = [k \in written |-> categories[k]]]]

\* JSON.parse
JSONparse(text) == IF text = Garbage THEN Throws ELSE text.json

\* save writing the new categories over those of the stored record.
saveMerging(item, value, mode) ==
    LET old == IF item \in {NULL, Garbage} THEN << >> ELSE item.json.categories
        new == value.categories
        merged == [k \in DOMAIN old \cup DOMAIN new |->
                      IF k \in DOMAIN new THEN new[k] ELSE old[k]]
        text == JSONstringify([value EXCEPT !.categories = merged])
        set == IF text = Throws THEN Throws ELSE setItem(item, text, mode)
    IN  IF set = Throws THEN [raised |-> FALSE, caught |-> TRUE, item |-> item]
        ELSE [raised |-> FALSE, caught |-> FALSE, item |-> set]

\* StorageManager.save(value): what it raises to its caller, whether its catch
\* block ran, and the item afterwards.
save(item, value, mode) ==
    LET text == JSONstringify(value)
        set == IF text = Throws THEN Throws ELSE setItem(item, text, mode)
    IN  IF set = Throws THEN [raised |-> FALSE, caught |-> TRUE, item |-> item]
        ELSE [raised |-> FALSE, caught |-> FALSE, item |-> set]

\* load with the exception let through.
loadUnguarded(item, mode) ==
    LET data == getItem(item, mode)
        parsed == IF data \in {Throws, NULL} THEN data ELSE JSONparse(data)
    IN  IF parsed = Throws THEN [raised |-> TRUE, value |-> NULL]
        ELSE IF parsed = NULL THEN [raised |-> FALSE, value |-> NULL]
        ELSE IF ~validateSchema(parsed)
             THEN [raised |-> FALSE, value |-> migrate(parsed)]
             ELSE [raised |-> FALSE, value |-> parsed]

\* StorageManager.load: what it raises to its caller and what it returns.
load(item, mode) ==
    LET data == getItem(item, mode)
        parsed == IF data \in {Throws, NULL} THEN data ELSE JSONparse(data)
    IN  IF parsed = Throws THEN [raised |-> FALSE, value |-> NULL]
        ELSE IF parsed = NULL THEN [raised |-> FALSE, value |-> NULL]
        ELSE IF ~validateSchema(parsed)
             THEN [raised |-> FALSE, value |-> migrate(parsed)]
             ELSE [raised |-> FALSE, value |-> parsed]

\* StorageManager.clear: it has no try; the item afterwards, or Throws.
clear(item, mode) == IF mode = "denied" THEN Throws ELSE NULL

\* isExpired with the comparison turned round.
isExpiredInverted(storedConsent, t) ==
    lessThan(t, newDate(storedConsent.expiresAt))

\* StorageManager.isExpired at the instant t
isExpired(storedConsent, t) ==
    lessThan(newDate(storedConsent.expiresAt), t)

\* ------------------------------------------------------------- EventEmitter
\* The events the page subscribes to, and the handlers it subscribes: a
\* handler is a function of the page, named after what it does when it is
\* called for an event: nothing ("log"), throw ("raise"), off(event, itself)
\* ("once"), on(event, log) ("adder"), off(event, log) ("remover"), or
\* off(event, itself) followed by on(event, itself) ("again").
EventNames == {"consent:update", "consent:init"}
Handlers == {"log", "raise", "once", "adder", "remover", "again"}
NoHandlers == [e \in EventNames |-> << >>]

\* The list of a Set keeps the place of a deleted element, empty, while a
\* forEach runs over it.
Empty == "<empty>"
compact(list) == SelectSeq(list, LAMBDA h : h # Empty)

\* Set.prototype.add and Set.prototype.delete on the Set of an event
add(list, callback) ==
    IF \E i \in 1..Len(list) : list[i] = callback THEN list
    ELSE Append(list, callback)
delete(list, callback) ==
    [i \in 1..Len(list) |-> IF list[i] = callback THEN Empty ELSE list[i]]

\* EventEmitter.on and EventEmitter.off
on(ev, eventName, callback) == [ev EXCEPT ![eventName] = add(@, callback)]
off(ev, eventName, callback) == [ev EXCEPT ![eventName] = delete(@, callback)]

\* The call callback(data) of the handler h for the event: the subscriptions
\* it leaves and whether it throws.
call(h, ev, eventName) ==
    [events |-> IF h = "once" THEN off(ev, eventName, h)
                ELSE IF h = "adder" THEN on(ev, eventName, "log")
                ELSE IF h = "remover" THEN off(ev, eventName, "log")
                ELSE IF h = "again" THEN on(off(ev, eventName, h), eventName, h)
                ELSE ev,
     threw |-> h = "raise"]

\* Set.prototype.forEach under EventEmitter.emit, from the place index of the
\* list on: it visits the elements added while it runs and skips the deleted
\* ones.  d is the delivery so far; after MaxCalls calls the emit is left
\* running (finished is FALSE).
RECURSIVE forEachUnguarded(_, _, _, _)
forEachUnguarded(ev, eventName, index, d) ==
    IF index > Len(ev[eventName])
    THEN [d EXCEPT !.events = ev, !.finished = TRUE]
    ELSE IF ev[eventName][index] = Empty
         THEN forEachUnguarded(ev, eventName, index + 1, d)
    ELSE IF Len(d.invoked) >= MaxCalls THEN [d EXCEPT !.events = ev]
    ELSE LET h == ev[eventName][index]
             c == call(h, ev, eventName)
             called == [d EXCEPT !.invoked = Append(@, h)]
         IN  IF c.threw
             THEN [called EXCEPT !.events = c.events, !.raised = TRUE,
                                 !.finished = TRUE]
             ELSE forEachUnguarded(c.events, eventName, index + 1, called)

RECURSIVE forEach(_, _, _, _)
forEach(ev, eventName, index, d) ==
    IF index > Len(ev[eventName])
    THEN [d EXCEPT !.events = ev, !.finished = TRUE]
    ELSE IF ev[eventName][index] = Empty
         THEN forEach(ev, eventName, index + 1, d)
    ELSE IF Len(d.invoked) >= MaxCalls THEN [d EXCEPT !.events = ev]
    ELSE LET h == ev[eventName][index]
             c == call(h, ev, eventName)
             called == [d EXCEPT !.invoked = Append(@, h),
                                 !.caught = IF c.threw THEN Append(@, h) ELSE @]
         IN  forEach(c.events, eventName, index + 1, called)

\* emit without the try around the call of the handler.
emitUnguarded(ev, eventName) ==
    forEachUnguarded(ev, eventName, 1,
                     [event |-> eventName, subscribed |-> ev[eventName],
                      events |-> ev,
                      invoked |-> << >>, caught |-> << >>, raised |-> FALSE,
                      finished |-> FALSE])

\* EventEmitter.emit(event, data): the handlers subscribed when it is called,
\* those it calls, in order, those whose exception it catches, whether it
\* raises to the publisher, whether it returns, and the subscriptions it
\* leaves.
emit(ev, eventName) ==
    forEach(ev, eventName, 1,
            [event |-> eventName, subscribed |-> ev[eventName], events |-> ev,
             invoked |-> << >>, caught |-> << >>, raised |-> FALSE,
             finished |-> FALSE])

\* ----------------------------------------------------------- GTMConsentMode
\* DataLayerManager.push(command, action, params) as the consent command that
\* window.dataLayer holds last.
push(action, params) == [action |-> action, params |-> params]

\* GTMConsentMode.setDefaultConsent
setDefaultConsent ==
    push("default",
         [ad_storage |-> "denied", ad_user_data |-> "denied",
          ad_personalization |-> "denied", analytics_storage |-> "denied",
          functionality_storage |-> "denied",
          personalization_storage |-> "denied",
          security_storage |-> "granted"])

\* GTMConsentMode.mapCategoriesToGTM: categories.marketing ? 'granted' : 'denied'
mapCategoriesToGTM(categories) ==
    LET granted(key) == IF truthy(field(categories, key)) THEN "granted"
                        ELSE "denied"
    IN  [ad_storage |-> granted("marketing"),
         ad_user_data |-> granted("marketing"),
         ad_personalization |-> granted("marketing"),
         analytics_storage |-> granted("analytics"),
         functionality_storage |-> granted("preferences"),
         personalization_storage |-> granted("preferences"),
         security_storage |-> "granted"]

\* GTMConsentMode.updateConsent
gtmUpdateConsent(categories) == push("update", mapCategoriesToGTM(categories))

\* ------------------------------------------------------------ CookieConsent
\* The gate's working state at the start of a step.
gateNow == [doc |-> doc, nextEl |-> nextEl, records |-> records,
            activated |-> activated, events |-> << >>]

event(name) == [name |-> name]



\* ScriptBlocker.block
block(d, b) == blockExistingScripts(d, b, NULL)

\* updateConsent with the save moved in front of the validation.
updateConsentSaveFirst(categories) ==
    LET consentRecord == createConsentRecord(categories, revision, now)
        saved == save(storage, consentRecord, storageMode)
        u == unblock(gateNow, blockedScripts, categories, observer)
    IN  IF ~validateConsent(categories)
        THEN [threw |-> "threw", consent |-> consent, storage |-> saved.item,
              gate |-> gateNow, blocked |-> blockedScripts,
              currentConsent |-> currentConsent, dataLayer |-> dataLayer]
        ELSE [threw |-> "", consent |-> consentRecord,
              storage |-> saved.item,
              gate |-> u.gate, blocked |-> u.blocked,
              currentConsent |-> categories,
              dataLayer |-> IF config.gtmConsentMode
                            THEN gtmUpdateConsent(categories)
                            ELSE dataLayer]

\* CookieConsent.updateConsent(categories): what it leaves behind.  It throws
\* before it changes anything when ConsentManager.updateConsent rejects the
\* categories ("threw").  With the GTM integration it pushes the categories
\* last.  (Its 400 ms timer only shows the floating widget.)
updateConsent(categories) ==
    IF ~validateConsent(categories)
    THEN [threw |-> "threw", consent |-> consent, storage |-> storage,
          gate |-> gateNow, blocked |-> blockedScripts,
          currentConsent |-> currentConsent, dataLayer |-> dataLayer]
    ELSE LET consentRecord == createConsentRecord(categories, revision, now)
             saved == save(storage, consentRecord, storageMode)
             u == unblock(gateNow, blockedScripts, categories, observer)
         IN  IF saved.raised
             THEN [threw |-> "save raised", consent |-> consentRecord,
                   storage |-> saved.item,
                   gate |-> gateNow, blocked |-> blockedScripts,
                   currentConsent |-> currentConsent, dataLayer |-> dataLayer]
             ELSE [threw |-> "", consent |-> consentRecord,
                   storage |-> saved.item,
                   gate |-> u.gate, blocked |-> u.blocked,
                   currentConsent |-> categories,
                   dataLayer |-> IF config.gtmConsentMode
                                 THEN gtmUpdateConsent(categories)
                                 ELSE dataLayer]

\* The state after updateConsent returned r.
decided(r) ==
    /\ r.gate.nextEl <= MaxEl + 1
    /\ consent' = r.consent
    /\ storage' = r.storage
    /\ doc' = r.gate.doc
    /\ nextEl' = r.gate.nextEl
    /\ records' = r.gate.records
    /\ activated' = r.gate.activated
    /\ blockedScripts' = r.blocked
    /\ currentConsent' = r.currentConsent
    /\ dataLayer' = r.dataLayer
    /\ emitted' = r.gate.events
    /\ last' = IF r.threw # "" THEN r.threw ELSE "updateConsent"

\* CookieConsent.showBanner, as the events it adds to those published in the step.
showBanner(published) == Append(published, event("consent:show"))

\* The items an earlier visit can have left in localStorage: saved under some
\* revision, on the day whose expiry date is the day of the load or on the
\* day before that one.
PriorPayloads == {AnalyticsOnly}
PageLoad == MakeDay(2026, 3, 15)
EarlierVisits == {MakeDay(2025, 2, 14), MakeDay(2025, 2, 15)}

StoredAtLoad ==
    {NULL} \cup { save(NULL, createConsentRecord(c, v, t), "ok").item
                    : c \in PriorPayloads,
                      v \in (MaxRevision - 1)..(MaxRevision + 1),
                      t \in EarlierVisits }

Init ==
    /\ config \in Configs
    /\ revision = MaxRevision
    /\ now = PageLoad
    /\ storage \in StoredAtLoad
    /\ storageMode = "ok"
    /\ session = 1
    /\ arg = NULL
    /\ savedVersions = << 0, 0 >>
    /\ unsaved = NULL
    /\ events = NoHandlers
    /\ delivery = NULL
    /\ dataLayer = NULL
    /\ inited = FALSE
    /\ doc = << >>
    /\ nextEl = 1
    /\ observer = FALSE
    /\ records = << >>
    /\ blockedScripts = << >>
    /\ currentConsent = NULL
    /\ consent = NULL
    /\ bannerEl = FALSE
    /\ bannerTimers = 0
    /\ activated = [o \in 1..MaxEl |-> 0]
    /\ emitted = << >>
    /\ last = "construct"

\* The page's parser, or a script of the page, puts a script element into the
\* document.  While the observer is connected the insertion queues a mutation
\* record, whose addedNodes holds the script, or the container it came in.
Insert(ins) ==
    /\ nextEl <= MaxEl
    /\ ins.nested => observer
    /\ doc' = Append(doc, newScript(ins.kind, nextEl))
    /\ nextEl' = nextEl + 1
    /\ records' = IF observer
                  THEN Append(records,
                              [isScript |-> ~ins.nested,
                               el |-> IF ins.nested THEN 0 ELSE nextEl])
                  ELSE records
    /\ emitted' = << >>
    /\ last' = "insert"
    /\ UNCHANGED << visits, bus, dataLayer, config, revision, now, inited,
                    observer,
                    blockedScripts, currentConsent, consent, storage, bannerEl,
                    bannerTimers, activated >>

InsertScript == \E ins \in Insertions : Insert(ins)

\* The callback of the MutationObserver (ScriptBlocker.observeDOM) on the
\* queued records.  An added script that has left the document since was
\* removed by reactivateScript, so it has the type text/plain and
\* processScript leaves it alone.
RECURSIVE observeFrom(_, _, _, _, _)
observeFrom(d, b, cc, recs, i) ==
    IF i > Len(recs) THEN [doc |-> d, blocked |-> b]
    ELSE IF recs[i].isScript /\ inDoc(d, recs[i].el)
            /\ nodeOf(d, recs[i].el).marker # NoAttr
         THEN LET r == processScript(d, b, cc, recs[i].el)
              IN  observeFrom(r.doc, r.blocked, cc, recs, i + 1)
         ELSE observeFrom(d, b, cc, recs, i + 1)

ObserverCallback ==
    /\ observer
    /\ records # << >>
    /\ LET r == observeFrom(doc, blockedScripts, currentConsent, records, 1)
       IN  /\ doc' = r.doc
           /\ blockedScripts' = r.blocked
    /\ records' = << >>
    /\ emitted' = << >>
    /\ last' = "observer"
    /\ UNCHANGED << visits, bus, dataLayer, config, revision, now, inited,
                    nextEl, observer,
                    currentConsent, consent, storage, bannerEl, bannerTimers,
                    activated >>

\* CookieConsent.init: the gate starts, the GTM integration pushes its
\* default, and the stored record is replayed or the banner shown.
InitConsent ==
    /\ ~inited
    /\ inited' = TRUE
    /\ observer' = TRUE
    /\ dataLayer' = IF config.gtmConsentMode THEN setDefaultConsent
                    ELSE dataLayer
    /\ LET blk == blockExistingScripts(doc, blockedScripts, currentConsent)
           loaded == load(storage, storageMode)
           storedConsent == loaded.value
           replay == /\ storedConsent # NULL
                     /\ ~isExpired(storedConsent, now)
                     /\ ~needsUpdate(storedConsent, revision)
       IN  IF loaded.raised
           THEN /\ doc' = blk.doc
                /\ blockedScripts' = blk.blocked
                /\ emitted' = << >>
                /\ last' = "load raised"
                /\ UNCHANGED << nextEl, records, activated, currentConsent,
                                bannerEl >>
           ELSE IF replay /\ unblockRaises(blk.blocked, storedConsent.categories)
           THEN /\ doc' = blk.doc
                /\ blockedScripts' = blk.blocked
                /\ currentConsent' = storedConsent.categories
                /\ emitted' = << >>
                /\ last' = "init raised"
                /\ UNCHANGED << nextEl, records, activated, bannerEl >>
           ELSE IF replay
           THEN LET u == unblock([gateNow EXCEPT !.doc = blk.doc], blk.blocked,
                                 storedConsent.categories, TRUE)
                IN  /\ u.gate.nextEl <= MaxEl + 1
                    /\ doc' = u.gate.doc
                    /\ nextEl' = u.gate.nextEl
                    /\ records' = u.gate.records
                    /\ activated' = u.gate.activated
                    /\ blockedScripts' = u.blocked
                    /\ currentConsent' = storedConsent.categories
                    /\ emitted' = u.gate.events
                           \o << [name |-> "consent:load",
                                  payload |-> storedConsent],
                                 event("consent:init") >>
                    /\ last' = "init"
                    /\ UNCHANGED bannerEl
           ELSE /\ doc' = blk.doc
                /\ blockedScripts' = blk.blocked
                /\ bannerEl' = (config.autoShow \/ bannerEl)
                /\ emitted' = Append(IF config.autoShow THEN showBanner(<< >>)
                                     ELSE << >>,
                                     event("consent:init"))
                /\ last' = "init"
                /\ UNCHANGED << nextEl, records, activated, currentConsent >>
    /\ UNCHANGED << visits, bus, config, revision, now, consent, storage,
                    bannerTimers >>

\* A script of the page calls the public CookieConsent.updateConsent, in a
\* task of its own (no mutation record is waiting for the observer).
UpdateConsent ==
    \E categories \in ApiPayloads :
        /\ inited /\ records = << >>
        /\ decided(updateConsent(categories))
        /\ UNCHANGED << visits, bus, config, revision, now, inited, observer,
                        bannerEl,
                        bannerTimers >>

\* Banner.handleAcceptAll / handleRejectAll publish consent:accept with all
\* categories or consent:reject with the necessary one only; the handler the
\* constructor subscribed calls updateConsent.  A click is a task of its own.
\* Banner.hide then starts the destroy timer.
BannerDecide ==
    \E categories \in {AcceptAll, RejectAll} :
        /\ inited /\ bannerEl /\ records = << >>
        /\ bannerTimers < MaxTimers
        /\ decided(updateConsent(categories))
        /\ bannerTimers' = bannerTimers + 1
        /\ UNCHANGED << visits, bus, config, revision, now, inited, observer,
                        bannerEl >>

\* Banner.handleCustomize: preferences:show opens the preference centre, and
\* the banner hides.
BannerCustomize ==
    /\ inited /\ bannerEl /\ records = << >>
    /\ bannerTimers < MaxTimers
    /\ bannerTimers' = bannerTimers + 1
    /\ emitted' = <<event("preferences:show")>>
    /\ last' = "customize"
    /\ UNCHANGED << visits, bus, dataLayer, config, revision, now, inited, doc,
                    nextEl, observer,
                    records, blockedScripts, currentConsent, consent, storage,
                    bannerEl, activated >>

\* PreferenceCenter.handleSave / handleRejectAll: the preference centre (which
\* showPreferences opens at any time) publishes consent:update with the
\* checked categories, or consent:reject with the necessary one only.
PreferencesDecide ==
    \E categories \in PreferencePayloads :
        /\ inited /\ records = << >>
        /\ decided(updateConsent(categories))
        /\ UNCHANGED << visits, bus, config, revision, now, inited, observer,
                        bannerEl,
                        bannerTimers >>

\* The 300 ms timer of Banner.hide: Banner.destroy.
BannerTimer ==
    /\ bannerTimers > 0 /\ records = << >>
    /\ bannerTimers' = bannerTimers - 1
    /\ bannerEl' = FALSE
    /\ emitted' = << >>
    /\ last' = "bannerTimer"
    /\ UNCHANGED << visits, bus, dataLayer, config, revision, now, inited, doc,
                    nextEl, observer,
                    records, blockedScripts, currentConsent, consent, storage,
                    activated >>

\* CookieConsent.reset
Reset ==
    /\ inited /\ records = << >>
    /\ IF clear(storage, storageMode) = Throws
       THEN /\ last' = "clear raised"
            /\ emitted' = << >>
            /\ UNCHANGED << storage, currentConsent, doc, blockedScripts,
                            bannerEl >>
       ELSE /\ storage' = clear(storage, storageMode)
            /\ currentConsent' = NULL
            /\ LET r == block(doc, blockedScripts)
               IN  /\ doc' = r.doc
                   /\ blockedScripts' = r.blocked
            /\ bannerEl' = TRUE
            /\ emitted' = showBanner(<< >>)
            /\ last' = "reset"
    /\ UNCHANGED << visits, bus, dataLayer, config, revision, now, inited,
                    nextEl, observer,
                    records, consent, bannerTimers, activated >>

\* destroy leaving the observer connected.
DestroyWatching ==
    /\ inited /\ records = << >>
    /\ observer
    /\ bannerEl' = FALSE
    /\ bannerTimers' = 0
    /\ observer' = TRUE
    /\ records' = << >>
    /\ emitted' = << >>
    /\ last' = "destroy"
    /\ UNCHANGED << visits, bus, dataLayer, config, revision, now, inited, doc,
                    nextEl,
                    blockedScripts, currentConsent, consent, storage,
                    activated >>

\* CookieConsent.destroy: the banner object is dropped (its timers then act on
\* an object nobody shows) and the observer is disconnected, which discards
\* its queued records.
Destroy ==
    /\ inited /\ records = << >>
    /\ observer
    /\ bannerEl' = FALSE
    /\ bannerTimers' = 0
    /\ observer' = FALSE
    /\ records' = << >>
    /\ emitted' = << >>
    /\ last' = "destroy"
    /\ UNCHANGED << visits, bus, dataLayer, config, revision, now, inited, doc,
                    nextEl,
                    blockedScripts, currentConsent, consent, storage,
                    activated >>

Next ==
    \/ InsertScript
    \/ ObserverCallback
    \/ InitConsent
    \/ UpdateConsent
    \/ BannerDecide
    \/ BannerCustomize
    \/ PreferencesDecide
    \/ BannerTimer
    \/ Reset
    \/ Destroy

Spec == Init /\ [][Next]_vars

\* ------------------------------------------- the visitor's successive visits
\* The first visit of a visitor: nothing stored by the library yet, or an item
\* under its key that is not JSON.
FirstVisits ==
    {MakeDay(2024, 1, 15), MakeDay(2024, 1, 31), MakeDay(2024, 2, 29),
     MakeDay(2024, 12, 31)}

VisitsInit ==
    /\ config = [autoShow |-> TRUE, gtmConsentMode |-> FALSE]
    /\ revision = 1
    /\ now \in FirstVisits
    /\ storage \in {NULL, Garbage}
    /\ storageMode \in StorageModes
    /\ session = 1
    /\ arg = NULL
    /\ savedVersions = << 0, 0 >>
    /\ unsaved = NULL
    /\ events = NoHandlers
    /\ delivery = NULL
    /\ dataLayer = NULL
    /\ inited = FALSE
    /\ doc = << >>
    /\ nextEl = 1
    /\ observer = FALSE
    /\ records = << >>
    /\ blockedScripts = << >>
    /\ currentConsent = NULL
    /\ consent = NULL
    /\ bannerEl = FALSE
    /\ bannerTimers = 0
    /\ activated = [o \in 1..MaxEl |-> 0]
    /\ emitted = << >>
    /\ last = "construct"

\* The visitor comes back: a new page, the next day or when the period of
\* ExpiryMonths has passed; the site may have raised its revision; the
\* constructor of CookieConsent runs; localStorage keeps its item.
Reload ==
    /\ session < MaxSessions
    /\ session' = session + 1
    /\ \E r \in {revision, revision + 1} :
          r <= MaxRevision /\ revision' = r
    /\ \E t \in {now + 1, setMonth(now, getMonth(now) + ExpiryMonths) + 1} :
          now' = t
    /\ storageMode' \in StorageModes
    /\ arg' = NULL
    /\ inited' = FALSE
    /\ doc' = << >>
    /\ nextEl' = 1
    /\ observer' = FALSE
    /\ records' = << >>
    /\ blockedScripts' = << >>
    /\ currentConsent' = NULL
    /\ consent' = NULL
    /\ bannerEl' = FALSE
    /\ bannerTimers' = 0
    /\ activated' = [o \in 1..MaxEl |-> 0]
    /\ emitted' = << >>
    /\ last' = "construct"
    /\ dataLayer' = NULL
    /\ UNCHANGED << bus, config, storage, savedVersions, unsaved >>

\* A script of the page calls the public CookieConsent.updateConsent with
\* whatever it likes.
Submit ==
    \E categories \in CallerPayloads :
        /\ inited /\ records = << >>
        /\ decided(updateConsent(categories))
        /\ arg' = categories
        /\ savedVersions' =
              IF storage' # storage
              THEN << savedVersions[2], JSONparse(storage').version >>
              ELSE savedVersions
        /\ unsaved' =
              IF last' # "updateConsent" THEN unsaved
              ELSE IF save(storage, consent', storageMode).caught
                   THEN categories
                   ELSE NULL
        /\ UNCHANGED << bus, config, revision, now, inited, observer, bannerEl,
                        bannerTimers, storageMode, session >>

VisitsNext ==
    \/ Reload
    \/ InitConsent
    \/ Submit
    \/ Reset

Visits == VisitsInit /\ [][VisitsNext]_vars

\* ------------------------------------------- a page load over any stored text
\* What the page load can find under the key besides: texts that the library
\* did not write, or wrote in another version of itself.  Each is the record
\* of a decision saved under the current revision and not yet expired, with
\* one thing changed.
SavedRecord ==
    createConsentRecord(AnalyticsOnly, MaxRevision, MakeDay(2025, 6, 1))

NotADate == << 0, 0, 0 >>
NumbersForBooleans == [necessary |-> "1", analytics |-> "1", marketing |-> "1"]
MissingVersion ==
    [timestamp |-> SavedRecord.timestamp, categories |-> AnalyticsOnly,
     userAgent |-> "UA", expiresAt |-> SavedRecord.expiresAt]

StoredTexts ==
    {NULL, Garbage, [json |-> NULL], [json |-> MissingVersion]}
    \cup { [json |-> [SavedRecord EXCEPT !.categories = c]] :
               c \in {AnalyticsOnly, NoNecessary, AbsentNecessary, UnknownKey,
                      NumbersForBooleans, NULL} }
    \cup { [json |-> [SavedRecord EXCEPT !.expiresAt = NotADate]] }

\* The scripts of the page: one of a category, and one that carries the
\* attribute data-cookieconsent with an empty value and a source URL that
\* none of the registered patterns is part of.
OtherUrl == <<"https://cdn.example.com", "/widget.js">>
Uncategorised == [marker |-> "", src |-> OtherUrl, type |-> ""]
PageScripts == { [marker |-> "analytics", src |-> GAUrl, type |-> ""],
                 Uncategorised }

LoadsInit ==
    /\ config = [autoShow |-> TRUE, gtmConsentMode |-> FALSE]
    /\ revision = MaxRevision
    /\ now = PageLoad
    /\ storage \in StoredTexts
    /\ storageMode = "ok"
    /\ session = 1
    /\ arg = NULL
    /\ savedVersions = << 0, 0 >>
    /\ unsaved = NULL
    /\ events = NoHandlers
    /\ delivery = NULL
    /\ dataLayer = NULL
    /\ inited = FALSE
    /\ doc = << >>
    /\ nextEl = 1
    /\ observer = FALSE
    /\ records = << >>
    /\ blockedScripts = << >>
    /\ currentConsent = NULL
    /\ consent = NULL
    /\ bannerEl = FALSE
    /\ bannerTimers = 0
    /\ activated = [o \in 1..MaxEl |-> 0]
    /\ emitted = << >>
    /\ last = "construct"

\* The page's parser, or a script of the page, appends a script element.
AppendScript ==
    \E kind \in PageScripts : Insert([kind |-> kind, nested |-> FALSE])

LoadsNext ==
    \/ AppendScript
    \/ ObserverCallback
    \/ InitConsent
    \/ UpdateConsent

Loads == LoadsInit /\ [][LoadsNext]_vars

\* ------------------------------------------------ the page and the emitter
\* The page subscribes and unsubscribes its handlers (CookieConsent.on and
\* off hand over to the emitter), and events are published.
BusInit ==
    /\ events = NoHandlers
    /\ delivery = NULL
    /\ dataLayer = NULL
    /\ config = [autoShow |-> TRUE, gtmConsentMode |-> FALSE]
    /\ revision = 1
    /\ now = PageLoad
    /\ storage = NULL
    /\ storageMode = "ok"
    /\ session = 1
    /\ arg = NULL
    /\ savedVersions = << 0, 0 >>
    /\ unsaved = NULL
    /\ inited = FALSE
    /\ doc = << >>
    /\ nextEl = 1
    /\ observer = FALSE
    /\ records = << >>
    /\ blockedScripts = << >>
    /\ currentConsent = NULL
    /\ consent = NULL
    /\ bannerEl = FALSE
    /\ bannerTimers = 0
    /\ activated = [o \in 1..MaxEl |-> 0]
    /\ emitted = << >>
    /\ last = "construct"

subscriptions(ev) == Len(ev["consent:update"]) + Len(ev["consent:init"])

On ==
    \E eventName \in EventNames, callback \in Handlers :
        /\ subscriptions(events) < MaxSubs
        /\ events' = on(events, eventName, callback)
        /\ delivery' = NULL
        /\ UNCHANGED << page, visits >>

Off ==
    \E eventName \in EventNames, callback \in Handlers :
        /\ \E i \in 1..Len(events[eventName]) : events[eventName][i] = callback
        /\ events' = [e \in EventNames |->
                         compact(off(events, eventName, callback)[e])]
        /\ delivery' = NULL
        /\ UNCHANGED << page, visits >>

\* An event is published while no emit is running.  When emit has returned
\* the places of the deleted handlers are gone from the Sets.
Emit ==
    \E eventName \in EventNames :
        LET d == emit(events, eventName)
        IN  /\ events' = [e \in EventNames |-> compact(d.events[e])]
            /\ delivery' = [event |-> d.event, subscribed |-> d.subscribed,
                            invoked |-> d.invoked, caught |-> d.caught,
                            raised |-> d.raised, finished |-> d.finished]
            /\ UNCHANGED << page, visits >>

BusNext ==
    \/ On
    \/ Off
    \/ Emit

Bus == BusInit /\ [][BusNext]_vars

\* ------------------------------------------- the categories of the scripts
\* A page load, over no record or over a record whose categories are
\* booleans, have a key that is none of the policy's or are numbers, whose
\* scripts differ in what gives them a category: a marker against the pattern
\* its URL contains, no marker value and a URL that contains a pattern of one
\* category or of two, a marker value that is no registered category, an
\* inline script without marker value, a URL that contains no pattern.
AdsUrl == <<"https://", "ads.", "google.com", "/a.js?ref=", "google-analytics.com">>
PixelUrl == <<"https://connect.", "facebook.net", "/sdk.js">>
LookupScripts ==
    { [marker |-> "marketing", src |-> GAUrl, type |-> ""],
      [marker |-> "", src |-> GAUrl, type |-> ""],
      [marker |-> "", src |-> AdsUrl, type |-> ""],
      [marker |-> "", src |-> PixelUrl, type |-> ""],
      [marker |-> "functional", src |-> OtherUrl, type |-> ""],
      [marker |-> "", src |-> Inline, type |-> ""],
      Uncategorised }

WriteScript ==
    \E kind \in LookupScripts : Insert([kind |-> kind, nested |-> FALSE])

LookupsNext ==
    \/ WriteScript
    \/ ObserverCallback
    \/ InitConsent
    \/ UpdateConsent

LookupsInit ==
    /\ LoadsInit
    /\ storage \in {NULL}
                   \cup { [json |-> [SavedRecord EXCEPT !.categories = c]] :
                              c \in {AnalyticsOnly, UnknownKey,
                                     NumbersForBooleans} }

Lookups == LookupsInit /\ [][LookupsNext]_vars

\* ------------------------------------------------ scripts the page removes
\* A page load in which the page also takes script elements out of the
\* document again (Node.removeChild, Element.remove).  Its scripts are those
\* of a page and one that has its category from its URL only.
ByPattern == [marker |-> "", src |-> GAUrl, type |-> ""]
RemovalScripts == ScriptKinds \cup {ByPattern}

RemovalsInit ==
    /\ Init
    /\ config.autoShow
    /\ storage \in {NULL, [json |-> SavedRecord]}

PlaceScript ==
    \E kind \in RemovalScripts : Insert([kind |-> kind, nested |-> FALSE])

\* The removal queues a mutation record without added nodes while the
\* observer is connected.
RemoveScript ==
    \E i \in 1..Len(doc) :
        /\ doc[i].attached
        /\ Len(records) < MaxEl
        /\ doc' = [doc EXCEPT ![i].attached = FALSE]
        /\ records' = IF observer
                      THEN Append(records, [isScript |-> FALSE, el |-> 0])
                      ELSE records
        /\ emitted' = << >>
        /\ last' = "remove"
        /\ UNCHANGED << visits, bus, dataLayer, config, revision, now, inited,
                        nextEl,
                        observer, blockedScripts, currentConsent, consent,
                        storage, bannerEl, bannerTimers, activated >>

RemovalsNext ==
    \/ PlaceScript
    \/ RemoveScript
    \/ ObserverCallback
    \/ InitConsent
    \/ UpdateConsent

Removals == RemovalsInit /\ [][RemovalsNext]_vars

\* --------------------------------------------- the caller's categories object
\* The script that calls updateConsent(categories) keeps the object it
\* passed.  ConsentManager.createConsentRecord copies its properties into the
\* record ({ ...categories }), and ScriptBlocker.unblock stores the object
\* itself in currentConsent: arg is the object of the last call that returned,
\* and from then on the gate's currentConsent is that very object.
PassObject ==
    \E categories \in ApiPayloads :
        /\ inited /\ records = << >>
        /\ decided(updateConsent(categories))
        /\ arg' = IF last' = "updateConsent" THEN categories ELSE arg
        /\ UNCHANGED << bus, config, revision, now, inited, observer, bannerEl,
                        bannerTimers, storageMode, session, savedVersions,
                        unsaved >>

\* The script assigns to a property of the object it passed: what the gate
\* reads through currentConsent changes with it, the record and the stored
\* item do not.
MutateObject ==
    \E key \in {"analytics", "marketing"} :
        /\ arg # NULL
        /\ LET value == IF arg[key] = "true" THEN "false" ELSE "true"
           IN  /\ arg' = [arg EXCEPT ![key] = value]
               /\ currentConsent' = [arg EXCEPT ![key] = value]
        /\ emitted' = << >>
        /\ last' = "mutate"
        /\ UNCHANGED << bus, dataLayer, config, revision, now, inited, doc,
                        nextEl,
                        observer, records, blockedScripts, consent, storage,
                        bannerEl, bannerTimers, activated, storageMode,
                        session, savedVersions, unsaved >>

CallersNext ==
    \/ AppendScript
    \/ ObserverCallback
    \/ InitConsent
    \/ PassObject
    \/ MutateObject

Callers == RemovalsInit /\ [][CallersNext]_vars

\* ---------------------------------------- the page's handlers of a decision
\* The constructor of CookieConsent subscribes its own handler of
\* consent:update ("core": it calls updateConsent with the payload) before
\* the page can call on(); the page has no reference to it and cannot
\* unsubscribe it.
Constructed == on(NoHandlers, "consent:update", "core")

SubscribersInit ==
    /\ events = Constructed
    /\ delivery = NULL
    /\ dataLayer = NULL
    /\ config = [autoShow |-> TRUE, gtmConsentMode |-> FALSE]
    /\ revision = MaxRevision
    /\ now = PageLoad
    /\ storage = NULL
    /\ storageMode \in StorageModes
    /\ session = 1
    /\ arg = NULL
    /\ savedVersions = << 0, 0 >>
    /\ unsaved = NULL
    /\ inited = FALSE
    /\ doc = << >>
    /\ nextEl = 1
    /\ observer = FALSE
    /\ records = << >>
    /\ blockedScripts = << >>
    /\ currentConsent = NULL
    /\ consent = NULL
    /\ bannerEl = FALSE
    /\ bannerTimers = 0
    /\ activated = [o \in 1..MaxEl |-> 0]
    /\ emitted = << >>
    /\ last = "construct"

\* PreferenceCenter.handleSave publishes consent:update with the checked
\* categories: emit calls the handlers of the Set in its order.  The core's
\* handler runs updateConsent; a handler of the page called before it sees
\* the stored item and the withheld set as they were, one called after it as
\* updateConsent left them (observed, per call).
Publish ==
    \E categories \in PreferencePayloads :
        LET d == emit(events, "consent:update")
            r == updateConsent(categories)
            before == [storage |-> storage, blockedScripts |-> blockedScripts]
            after == [storage |-> r.storage, blockedScripts |-> r.blocked]
        IN  /\ inited /\ records = << >>
            /\ decided(r)
            /\ events' = [e \in EventNames |-> compact(d.events[e])]
            /\ delivery' =
                  [event |-> d.event, subscribed |-> d.subscribed,
                   invoked |-> d.invoked, caught |-> d.caught,
                   raised |-> d.raised, finished |-> d.finished,
                   observed |->
                       [i \in 1..Len(d.invoked) |->
                           IF \E j \in 1..(i - 1) : d.invoked[j] = "core"
                           THEN after ELSE before]]
            /\ UNCHANGED << visits, config, revision, now, inited, observer,
                            bannerEl, bannerTimers >>

\* The page's parser puts a script element into the document before init()
\* runs.
ParseScript == ~inited /\ AppendScript

SubscribersNext ==
    \/ ParseScript
    \/ ObserverCallback
    \/ InitConsent
    \/ On
    \/ Off
    \/ Publish

Subscribers == SubscribersInit /\ [][SubscribersNext]_vars

\* ------------------------------------------ a page with the GTM integration
\* The site passes gtmConsentMode: true; the visitor is new or has decided
\* before, and the page's scripts call the public updateConsent and reset.
TagsInit ==
    /\ config = [autoShow |-> TRUE, gtmConsentMode |-> TRUE]
    /\ revision = MaxRevision
    /\ now = PageLoad
    /\ storage \in {NULL, [json |-> SavedRecord]}
    /\ storageMode = "ok"
    /\ session = 1
    /\ arg = NULL
    /\ savedVersions = << 0, 0 >>
    /\ unsaved = NULL
    /\ events = NoHandlers
    /\ delivery = NULL
    /\ dataLayer = NULL
    /\ inited = FALSE
    /\ doc = << >>
    /\ nextEl = 1
    /\ observer = FALSE
    /\ records = << >>
    /\ blockedScripts = << >>
    /\ currentConsent = NULL
    /\ consent = NULL
    /\ bannerEl = FALSE
    /\ bannerTimers = 0
    /\ activated = [o \in 1..MaxEl |-> 0]
    /\ emitted = << >>
    /\ last = "construct"

TagsNext ==
    \/ AppendScript
    \/ ObserverCallback
    \/ InitConsent
    \/ Submit
    \/ Reset

Tags == TagsInit /\ [][TagsNext]_vars

\* ================================================================= claims
\* The vocabulary of the claims, stated apart from the operators above.
\* The record the stored item denotes, NULL when there is none.
Stored == IF storage \in {NULL, Garbage} THEN NULL ELSE storage.json

Approves(categories, category) ==
    /\ categories # NULL
    /\ category \in DOMAIN categories
    /\ categories[category] = "true"

Withheld(script) == script.type = PlainType
WithheldByGate(script) == script.type = PlainType /\ script.origType # ""
AuthoredWithheld(script) == script.type = PlainType /\ script.origType = ""
Scripts == { doc[i] : i \in 1..Len(doc) }
Entries == { blockedScripts[i] : i \in 1..Len(blockedScripts) }
DecisionApplied == last \in {"updateConsent", "init"} /\ currentConsent # NULL

\* C1: after init() and while no decision has been applied, every script in
\* the document with a non-empty data-cookieconsent category has the type
\* text/plain, in every reachable state.
C1_MarkedScriptsWithheld ==
    (inited /\ currentConsent = NULL) =>
        \A script \in Scripts :
            script.marker \notin {NoAttr, ""} => Withheld(script)

\* C2: once a decision allowing its category has been applied, a script
\* authored with type="text/plain" and data-cookieconsent has been replaced by
\* an executable copy: none is left in the document.
C2_AuthoredScriptReleased ==
    DecisionApplied =>
        \A script \in Scripts :
            ~(AuthoredWithheld(script) /\ Approves(currentConsent, script.marker))

\* C3: when unblock(categories) has returned, no script that the gate rewrote
\* to text/plain and whose category categories allows is still withheld in
\* the document.
C3_NoMissedExecution ==
    DecisionApplied =>
        \A script \in Scripts :
            ~(WithheldByGate(script)
              /\ Approves(currentConsent, getCategoryForScript(script)))

\* C4: the gate replaces-and-executes each gating-candidate script at most
\* once.
C4_NoDuplicateExecution == \A o \in 1..MaxEl : activated[o] <= 1

\* C6: while the watch is active and has delivered its records, every
\* classified script in the document whose category is not approved is
\* withheld, however it was inserted.
C6_InsertedScriptsWithheld ==
    (observer /\ records = << >> /\ currentConsent = NULL) =>
        \A script \in Scripts :
            getCategoryForScript(script) # NoCategory => Withheld(script)

ScriptsOf(d) == { d[i] : i \in 1..Len(d) }
EntriesOf(b) == { b[i] : i \in 1..Len(b) }
Copies(d) == { script \in ScriptsOf(d) : script.el # script.origin }
Published(name) == \E i \in 1..Len(emitted) : emitted[i].name = name

\* The stored record is a valid current record: present, not expired, and of
\* the policy's revision or a later one.
StoredRecordValid ==
    /\ Stored # NULL
    /\ ~(now > newDate(Stored.expiresAt))
    /\ ~(Stored.version < revision)

C7_NoReplayWithoutValidRecord ==
    [][ /\ (~inited /\ inited' /\ ~StoredRecordValid) =>
              /\ activated' = activated
              /\ currentConsent' = NULL
              /\ Copies(doc') = {}
              /\ \A script \in ScriptsOf(doc') :
                    getCategoryForScript(script) # NoCategory => Withheld(script)
        /\ (inited /\ currentConsent = NULL /\ last' # "updateConsent") =>
              /\ activated' = activated
              /\ Copies(doc') = Copies(doc) ]_vars

\* C7 happens: init() has found an expired record of the current revision and
\* has withheld a script of a category that record allowed.
C7_Witness ==
    /\ last = "init"
    /\ Stored # NULL
    /\ now > newDate(Stored.expiresAt)
    /\ Stored.version = revision
    /\ \E e \in Entries :
          Approves(Stored.categories, nodeOf(doc, e.el).marker)

\* C8, as claimed: whenever init() finds no valid current record, the banner
\* is shown and consent:show is published during that init().
C8_BannerWhenNoValidRecord ==
    (last = "init" /\ ~StoredRecordValid) =>
        (bannerEl /\ Published("consent:show"))

\* C8, amended: whenever init() finds no valid current record and the
\* configuration has autoShow enabled, the banner is shown and consent:show is
\* published during that init().
C8_BannerWhenNoValidRecordAndAutoShow ==
    (last = "init" /\ ~StoredRecordValid /\ config.autoShow) =>
        (bannerEl /\ Published("consent:show"))

\* C8 happens: init() has found a stale record under autoShow.
C8_Witness ==
    /\ last = "init"
    /\ config.autoShow
    /\ Stored # NULL
    /\ Stored.version < revision
    /\ ~(now > newDate(Stored.expiresAt))

C10_NoAutomaticTransition ==
    [][ (inited /\ currentConsent = NULL /\ last' # "updateConsent") =>
          /\ storage' \in {storage, NULL}
          /\ consent' = consent
          /\ currentConsent' = NULL
          /\ activated' = activated
          /\ \A script \in ScriptsOf(doc) :
                Withheld(script) =>
                    \E after \in ScriptsOf(doc') :
                        after.el = script.el /\ Withheld(after) ]_vars

\* C10 happens: the observer's callback has run while a decision is pending
\* and scripts are withheld.
C10_Witness ==
    /\ inited
    /\ currentConsent = NULL
    /\ last = "observer"
    /\ blockedScripts # << >>
    /\ \E script \in Scripts : AuthoredWithheld(script)

\* C11: updateConsent(categories) with categories that fail validation raises
\* to its caller and changes nothing: a call that returned had categories that
\* pass validation, and across a call that raised the stored item,
\* ConsentManager.consent, the gate's approval and withheld set and the
\* document are as before, and no script is released.
C11_RejectedDecisionChangesNothing ==
    [][ /\ last' = "updateConsent" => validateConsent(currentConsent')
        /\ last' = "threw" =>
              /\ storage' = storage
              /\ consent' = consent
              /\ currentConsent' = currentConsent
              /\ blockedScripts' = blockedScripts
              /\ doc' = doc
              /\ activated' = activated
              /\ emitted' = << >> ]_vars

\* C11 happens: updateConsent has raised while a record is stored, an approval
\* is remembered and a script is withheld.
C11_Witness ==
    /\ last = "threw"
    /\ Stored # NULL
    /\ consent # NULL
    /\ currentConsent # NULL
    /\ blockedScripts # << >>

\* C17: needsUpdate(record) is true exactly when record.version < revision,
\* and init() applies an unexpired stored record as current exactly when its
\* version is the revision or a greater one, without raising.
C17_StaleIffOlderVersion ==
    /\ Stored # NULL =>
          (needsUpdate(Stored, revision) <=> Stored.version < revision)
    /\ (last = "init" /\ Stored # NULL /\ ~(now > newDate(Stored.expiresAt))) =>
          /\ (currentConsent = Stored.categories) <=> (Stored.version >= revision)
          /\ Published("consent:load") <=> (Stored.version >= revision)
          /\ (currentConsent = NULL) <=> (Stored.version < revision)

\* C17 happens: init() has applied an unexpired record of a greater version.
C17_Witness ==
    /\ last = "init"
    /\ Stored # NULL
    /\ Stored.version = revision + 1
    /\ ~(now > newDate(Stored.expiresAt))
    /\ Published("consent:load")
    /\ currentConsent = Stored.categories

\* C18: after init(), needsConsent() is true exactly when no consent record
\* exists for the visitor.
C18_NeedsConsentIffNoRecord ==
    inited => (needsConsent(consent) <=> Stored = NULL)

\* Reading a property of an object: undefined when it has none of that name.
Read(object, key) == IF key \in DOMAIN object THEN object[key] ELSE "undefined"

\* C12: validateConsent(categories) accepts categories exactly when
\* categories.necessary is true and every key of categories is a key of the
\* policy's categories.
C12_ValidateExactlyWhenWellFormed ==
    (last \in {"updateConsent", "threw"} /\ arg # NULL) =>
        ( last = "updateConsent"
          <=> ( /\ Read(arg, "necessary") = "true"
                /\ DOMAIN arg \subseteq PolicyCategories ) )

\* C13: every record in storage has categories.necessary strictly equal to
\* true.
C13_StoredNecessaryStrictlyTrue ==
    Stored # NULL => Read(Stored.categories, "necessary") = "true"

\* C14: the policy revision never decreasing from one page load to the next,
\* every record saved has the revision of the page load that saved it as its
\* version, which is not lower than the version of the record saved before.
C14_SavedVersionNeverDecreases ==
    [][ /\ revision' >= revision
        /\ (storage' # storage /\ storage' \notin {NULL, Garbage}) =>
              /\ storage'.json.version = revision'
              /\ storage'.json.version >= savedVersions[2]
              /\ savedVersions' = << savedVersions[2], storage'.json.version >>
        /\ savedVersions'[1] <= savedVersions'[2] ]_vars

\* C14 happens: a record of revision 2 has been saved at a later page load,
\* after a record of revision 1.
C14_Witness ==
    /\ last = "updateConsent"
    /\ session > 1
    /\ savedVersions = << 1, 2 >>
    /\ Stored # NULL
    /\ Stored.version = 2

\* The save of a decision d succeeds: the storage takes writes and d can be
\* serialized.
SaveSucceeds(d) ==
    storageMode = "ok" /\ \A k \in DOMAIN d : d[k] # "bigint"

ThirteenMonthsAfter(isoString) ==
    LET y == isoString[1] + (IF isoString[2] = 12 THEN 2 ELSE 1)
        m == IF isoString[2] = 12 THEN 1 ELSE isoString[2] + 1
        d == IF isoString[3] <= DaysInMonth(y, m) THEN isoString[3]
             ELSE DaysInMonth(y, m)
    IN  << y, m, d >>

\* C16: the record a decision creates expires exactly 13 calendar months
\* after its timestamp, whatever the day of its creation.
C16_ExpiryThirteenCalendarMonths ==
    consent # NULL => consent.expiresAt = ThirteenMonthsAfter(consent.timestamp)

\* C19: when storage succeeds, load() after the save(record) of a decision
\* returns a record equal to the saved one in version, timestamp, categories,
\* client context and expiresAt.
C19_SaveLoadRoundTrip ==
    (last = "updateConsent" /\ SaveSucceeds(arg)) =>
        load(storage, storageMode).value = consent

\* C20: save and load never raise to their caller.  When serialization or the
\* write fails, save returns and the item is as before; when the read or the
\* parsing fails, load returns null and init() goes on as without a record.
C20_SaveLoadNeverRaise ==
    [][ /\ last' \notin {"save raised", "load raised"}
        /\ ~load(storage, storageMode).raised
        /\ \A categories \in CallerPayloads :
              ~save(storage, createConsentRecord(categories, revision, now),
                    storageMode).raised
        /\ (~inited /\ inited' /\ (storageMode = "denied" \/ storage = Garbage)) =>
              /\ load(storage, storageMode).value = NULL
              /\ last' = "init"
              /\ currentConsent' = NULL
              /\ storage' = storage
        /\ (last' = "updateConsent" /\ ~SaveSucceeds(arg')) =>
              /\ storage' = storage
              /\ consent'.categories = arg'
              /\ currentConsent' = arg' ]_vars

\* C20 happens: with every access to the storage refused, init() has run and
\* a decision that cannot be serialized either has been accepted.
C20_Witness ==
    /\ storageMode = "denied"
    /\ storage = Garbage
    /\ last = "updateConsent"
    /\ arg = BigIntValue
    /\ consent # NULL

\* C21: after an accepted decision d whose write to the storage failed, no
\* later init() (of this page load or of a following one) replays a record
\* with categories other than d as the visitor's current decision.
C21_FailedSaveIsNoRecord ==
    (last = "init" /\ unsaved # NULL /\ currentConsent # NULL) =>
        currentConsent = unsaved

\* A parsed item is a well-formed record: it has every field of a record, and
\* its categories map every name to a boolean.
WellFormedRecord(data) ==
    /\ data # NULL
    /\ {"version", "timestamp", "categories", "userAgent", "expiresAt"}
           \subseteq DOMAIN data
    /\ data.categories # NULL
    /\ \A k \in DOMAIN data.categories :
          data.categories[k] \in {"true", "false"}

\* C22: init() never raises, whatever text the item holds and whatever
\* scripts are withheld; it publishes consent:init, and an item that is not a
\* well-formed record is treated as absent: no approval is remembered from it
\* and consent:load is not published.
C22_InitNeverRaises ==
    /\ last # "init raised"
    /\ last = "init" =>
          /\ Published("consent:init")
          /\ ~WellFormedRecord(Stored) =>
                (currentConsent = NULL /\ ~Published("consent:load"))

\* C23: init() releases no script when the categories of the stored record
\* are no valid decision: necessary absent or false, or a key that is none of
\* the policy's.
C23_NoReplayOfInvalidDecision ==
    ( /\ last = "init"
      /\ Stored # NULL
      /\ "categories" \in DOMAIN Stored
      /\ Stored.categories # NULL
      /\ \/ Read(Stored.categories, "necessary") \in {"undefined", "false"}
         \/ ~(DOMAIN Stored.categories \subseteq PolicyCategories) )
    => \A o \in 1..MaxEl : activated[o] = 0

\* C24: init() releases no script when the expiresAt of the stored record
\* cannot be read as an instant.
C24_NoReplayWithoutExpiry ==
    ( /\ last = "init"
      /\ Stored # NULL
      /\ "expiresAt" \in DOMAIN Stored
      /\ newDate(Stored.expiresAt) = NaN )
    => \A o \in 1..MaxEl : activated[o] = 0

\* C30: once init() has run and the observer has delivered its records, a
\* script that carries data-cookieconsent and resolves to no category is in
\* the withheld set, and no decision releases it.
C30_UncategorisedWithheld ==
    (inited /\ observer /\ records = << >>) =>
        \A script \in Scripts :
            (script.marker # NoAttr /\ getCategoryForScript(script) = NoCategory)
            => /\ \E e \in Entries : e.el = script.el
               /\ activated[script.origin] = 0

\* A script the gate is to hold: it carries data-cookieconsent and resolves
\* to a category.
Candidate(script) ==
    script.marker # NoAttr /\ getCategoryForScript(script) # NoCategory

\* C25: after reset() the banner is in the document, and it stays there
\* across the timers, insertions and observer callbacks that follow, whatever
\* destroy timers an earlier hide has left pending.
C25_ResetShowsBanner ==
    [][ /\ last' = "reset" => bannerEl'
        /\ (last = "reset" /\ last' \in {"bannerTimer", "insert", "observer"})
              => bannerEl' ]_vars

\* C26: after reset() no record is stored, the gate remembers no approval,
\* every script of the document that carries the marker and has a category is
\* withheld (those released earlier too) and the observer is as it was; a
\* such script inserted next, while the observer is connected, is withheld.
C26_ResetReengagesGate ==
    [][ /\ last' = "reset" =>
              /\ storage' = NULL
              /\ currentConsent' = NULL
              /\ observer' = observer
              /\ \A script \in ScriptsOf(doc') :
                    Candidate(script) => Withheld(script)
        /\ (last = "reset" /\ observer /\ last' = "insert") =>
              \A script \in ScriptsOf(doc') :
                  Candidate(script) => Withheld(script) ]_vars

\* C27: destroy() disconnects the observer and leaves the document (so the
\* type of every withheld script), the withheld set, the approval, the stored
\* item and the releases as they were; while the observer is disconnected an
\* inserted script is appended as written, no record is queued for it, the
\* observer's callback does not run and the withheld set stays as it is.
C27_DestroyStopsWatchOnly ==
    [][ /\ last' = "destroy" =>
              /\ ~observer'
              /\ doc' = doc
              /\ blockedScripts' = blockedScripts
              /\ currentConsent' = currentConsent
              /\ storage' = storage
              /\ activated' = activated
              /\ emitted' = << >>
        /\ (inited /\ ~observer) =>
              /\ last' # "observer"
              /\ records' = << >>
              /\ last' = "insert" =>
                    /\ blockedScripts' = blockedScripts
                    /\ SubSeq(doc', 1, Len(doc)) = doc
                    /\ \E kind \in ScriptKinds :
                          doc'[Len(doc')] = newScript(kind, nextEl) ]_vars

\* C27 happens: after destroy(), with a script withheld and an approval
\* remembered, a script of a category that is not approved has been inserted
\* and stays executable.
C27_Witness ==
    /\ inited /\ ~observer
    /\ last = "insert"
    /\ blockedScripts # << >>
    /\ currentConsent # NULL
    /\ Stored # NULL
    /\ \E script \in Scripts :
          /\ script.marker = "marketing"
          /\ script.type = DefaultType
          /\ script.el = script.origin
          /\ ~Approves(currentConsent, "marketing")

\* The handlers that change no subscription when they are called.
Quiet == {"log", "raise"}
Range(list) == { list[i] : i \in 1..Len(list) }

\* C28: emit never raises to the publisher; when none of the handlers
\* subscribed to the event changes a subscription, emit calls exactly those
\* handlers, in the order of their subscription, those after a handler that
\* raised included, and catches the exception of each that raised.
C28_EmitInOrderDespiteRaise ==
    delivery # NULL =>
        /\ ~delivery.raised
        /\ Range(delivery.subscribed) \subseteq Quiet =>
              /\ delivery.finished
              /\ delivery.invoked = delivery.subscribed
              /\ delivery.caught
                    = SelectSeq(delivery.subscribed, LAMBDA h : h = "raise")
              /\ events[delivery.event] = delivery.subscribed

\* C28 happens: an emit has called a handler that raised and, after it, the
\* handler subscribed next.
C28_Witness ==
    /\ delivery # NULL
    /\ delivery.subscribed = << "raise", "log" >>
    /\ delivery.invoked = << "raise", "log" >>
    /\ delivery.caught = << "raise" >>

\* C29: every emit returns, having called exactly the handlers that were
\* subscribed to the event when it was called, each once, whatever the
\* handlers subscribe or unsubscribe meanwhile.
C29_EmitCallsSubscribersOnce ==
    delivery # NULL =>
        /\ delivery.finished
        /\ delivery.invoked = delivery.subscribed

\* A script of no category: neither its marker nor its source URL gives one.
Unclassified(script) == getCategoryForScript(script) = NoCategory

\* C31: a script that resolves to no category is never gated: in every state
\* no original type is recorded on it and it is no entry of the withheld set,
\* whatever approval the gate remembers, and no step changes its type or any
\* other of its attributes.
C31_UnclassifiedNeverGated ==
    [][ \A script \in ScriptsOf(doc') :
            Unclassified(script) =>
                /\ script.origType = ""
                /\ \A e \in EntriesOf(blockedScripts') : e.el # script.el
                /\ inDoc(doc, script.el) => nodeOf(doc, script.el) = script ]_vars

\* C31 happens: init() and the observer have passed an unclassified script
\* that carries data-cookieconsent while a script of a category is withheld
\* under a decision.
C31_Witness ==
    /\ inited /\ observer /\ records = << >>
    /\ currentConsent # NULL
    /\ blockedScripts # << >>
    /\ \E script \in Scripts :
          /\ Unclassified(script)
          /\ script.marker = ""
          /\ script.type = ""

\* The type a script element executes as: an element without a type attribute
\* is a classic script, as one of the type text/javascript.
executionType(type) == IF type = "" THEN DefaultType ELSE type

\* The execution type a script had before the gate withheld it.
TypeBefore(script) ==
    IF WithheldByGate(script) THEN script.origType
    ELSE executionType(script.type)

\* C32: withholding and release keep every script at its place in the
\* document, with its category marker, its source or inline body and the
\* execution type it had before it was withheld; a release puts a new
\* element, of that execution type and not withheld, at the place of the
\* withheld one, which leaves the document.
C32_WithholdReleaseRoundTrip ==
    [][ \/ doc' = doc
        \/ /\ Len(doc') >= Len(doc)
           /\ \A i \in 1..Len(doc) :
                 \/ doc'[i] = doc[i]
                 \/ /\ doc'[i].origin = doc[i].origin
                    /\ doc'[i].marker = doc[i].marker
                    /\ doc'[i].src = doc[i].src
                    /\ TypeBefore(doc'[i]) = TypeBefore(doc[i])
                    /\ doc'[i].el # doc[i].el =>
                          /\ ~inDoc(doc', doc[i].el)
                          /\ ~inDoc(doc, doc'[i].el)
                          /\ doc'[i].type = TypeBefore(doc[i])
                          /\ doc'[i].origType = ""
                          /\ activated'[doc[i].origin]
                                = activated[doc[i].origin] + 1
                          /\ last' \in {"updateConsent", "init"} ]_vars

\* C32 happens: a script written without a type attribute, withheld and then
\* released by a decision, stands as a classic script in front of the script
\* that followed it.
C32_Witness ==
    /\ last = "updateConsent"
    /\ Len(doc) >= 2
    /\ doc[1].el # doc[1].origin
    /\ doc[1].src = GAUrl
    /\ doc[1].type = DefaultType
    /\ doc[2].el < doc[1].el
    /\ activated[doc[1].origin] = 1

\* The registered categories one of whose patterns is part of the URL, by
\* their place in the order of registration.
Matching(src) ==
    { i \in 1..Len(defaultPatterns) :
          \E k \in 1..Len(defaultPatterns[i].patterns) :
              includes(src, defaultPatterns[i].patterns[k]) }

CategoryExpected(script) ==
    IF script.marker \notin {NoAttr, ""} THEN script.marker
    ELSE IF Matching(script.src) # {}
         THEN defaultPatterns[CHOOSE i \in Matching(script.src) :
                                  \A j \in Matching(script.src) : i <= j].name
         ELSE NoCategory

CategoryNames == PolicyCategories \cup {"functional", "toString"}

\* C33: for every script of the document getCategoryForScript gives the
\* marker value when it is not empty, otherwise the first registered category
\* one of whose patterns is part of the source URL, otherwise null; and under
\* the approval the gate remembers isAllowed is true of a category exactly
\* when the approval maps it to the boolean true.
C33_CategoryLookup ==
    /\ \A script \in Scripts :
          getCategoryForScript(script) = CategoryExpected(script)
    /\ currentConsent # NULL =>
          \A category \in CategoryNames :
              isAllowed(category, currentConsent)
                  <=> Read(currentConsent, category) = "true"

\* C33 happens: under an approval that gives numbers for booleans, a script
\* whose URL contains a pattern of marketing and one of analytics is withheld,
\* and a script marked marketing is in the document with a URL of analytics.
C33_Witness ==
    /\ inited
    /\ currentConsent = NumbersForBooleans
    /\ \E script \in Scripts :
          /\ script.marker = "" /\ script.src = AdsUrl
          /\ Withheld(script)
    /\ \E script \in Scripts :
          script.marker = "marketing" /\ script.src = GAUrl

\* The source a script:activated names for a script.
SourceOf(script) == IF script.src # Inline THEN script.src ELSE <<"inline">>

\* C34: the script:activated events a step publishes are as many as the
\* elements the release has put into the document in that step, and each such
\* element has an event that carries its category and its source; none is
\* published for a withheld script the page had removed from the document.
C34_ActivatedOncePerReinsertion ==
    [][ LET acts == SelectSeq(emitted', LAMBDA e : e.name = "script:activated")
            reinserted == { script \in ScriptsOf(doc') :
                                script.el # script.origin /\ script.el >= nextEl }
        IN  /\ Len(acts) = Cardinality(reinserted)
            /\ \A script \in reinserted :
                  \E i \in 1..Len(acts) :
                      /\ acts[i].category = getCategoryForScript(script)
                      /\ acts[i].src = SourceOf(script) ]_vars

\* C35: after updateConsent(c) has returned, an assignment to a property of
\* c changes neither the record nor the stored item, and the observer then
\* withholds an inserted script of a category exactly when the decision as it
\* was submitted does not allow that category.
C35_DecisionIsolatedFromCaller ==
    [][ /\ last' = "mutate" => (consent' = consent /\ storage' = storage)
        /\ (last' = "observer" /\ consent # NULL) =>
              \A i \in 1..Len(records) :
                  (records[i].isScript /\ inDoc(doc, records[i].el)) =>
                      LET before == nodeOf(doc, records[i].el)
                          after == nodeOf(doc', records[i].el)
                      IN  (Candidate(before) /\ ~Withheld(before)) =>
                              ( Withheld(after)
                                <=> ~Approves(consent.categories,
                                              getCategoryForScript(before)) )
      ]_vars

\* The scripts the page has put into the document since the observer's
\* callback ran last: every element created since then has queued one record.
InsertedSince ==
    { script \in Scripts :
          script.el = script.origin /\ script.el >= nextEl - Len(records) }

\* C36: while the most recent decision d governs the gate (no reset after
\* it), a script with a marker, a category and an executable type that was
\* inserted after d is withheld, once the observer has delivered its
\* records, exactly when d does not allow its category.
C36_GatingFollowsLastDecision ==
    [][ ( /\ last' = "observer"
          /\ consent # NULL
          /\ currentConsent = consent.categories )
        => \A script \in InsertedSince :
               (Candidate(script) /\ ~Withheld(script)) =>
                   ( Withheld(nodeOf(doc', script.el))
                     <=> ~Approves(consent.categories,
                                   getCategoryForScript(script)) ) ]_vars

\* C37: a handler the page subscribed to consent:update is called after the
\* core's own: at each of its calls the item stored is the record of the
\* decision published, and no script whose category the decision allows is
\* left in the withheld set.
C37_CoreHandlerFirst ==
    (delivery # NULL /\ delivery.event = "consent:update"
        /\ last = "updateConsent") =>
        \A i \in 1..Len(delivery.invoked) :
            delivery.invoked[i] # "core" =>
                LET seen == delivery.observed[i]
                IN  /\ seen.storage \notin {NULL, Garbage}
                    /\ seen.storage.json = consent
                    /\ \A e \in EntriesOf(seen.blockedScripts) :
                          ~Approves(consent.categories,
                                    getCategoryForScript(nodeOf(doc, e.el)))

\* The places of the events of a name among those the last step published.
Places(name) == { i \in 1..Len(emitted) : emitted[i].name = name }

\* C38: among the events one init() publishes, every script:activated comes
\* before consent:load, consent:load and consent:show are not both published
\* and come before consent:init, and consent:init is published once, as the
\* last event.
C38_InitEventOrder ==
    last \in {"init", "init raised", "load raised"} =>
        /\ Cardinality(Places("consent:init")) = 1
        /\ Places("consent:init") = {Len(emitted)}
        /\ Places("consent:load") = {} \/ Places("consent:show") = {}
        /\ Cardinality(Places("consent:load")) <= 1
        /\ Cardinality(Places("consent:show")) <= 1
        /\ \A i \in Places("script:activated") :
              \E j \in Places("consent:load") : i < j
        /\ \A i \in Places("consent:load") \cup Places("consent:show") :
              i < Len(emitted)

\* C39: with the GTM integration on, once init() has run, the consent state
\* pushed last to the data layer grants analytics_storage exactly when the
\* gate's approval state allows analytics, and ad_storage exactly when it
\* allows marketing.
Granted(key) == dataLayer # NULL /\ dataLayer.params[key] = "granted"

C39_PushedStateAgreesWithGate ==
    (config.gtmConsentMode /\ inited) =>
        /\ Approves(currentConsent, "analytics") <=> Granted("analytics_storage")
        /\ Approves(currentConsent, "marketing") <=> Granted("ad_storage")

====
